---- MODULE Spec2Model ----
(***************************************************************************)
(* Model of the notification core of lite-rpc (src/src/context.rs):        *)
(* the subscription registry (a DashMap), the ingestion queue (a crossbeam *)
(* channel), the dispatcher loop LiteRpcSubsrciptionControl::              *)
(* start_broadcasting and the tokio broadcast channel it publishes to.     *)
(***************************************************************************)
EXTENDS Integers, Sequences, FiniteSets, TLC

(***************************************************************************)
(* Bounds of the model.                                                    *)
(***************************************************************************)
MaxEvents == 2        \* events ever put on the ingestion queue
MaxIds == 2           \* subscription ids ever minted by the registry
NumProducers == 2     \* Sender handles of the ingestion queue
NumConns == 2         \* client connections
FanoutSize == 1       \* capacity of the broadcast channel (fanout_size)
MaxRecvErrors == 1    \* error lines of the dispatcher that are told apart
MaxUpdates == 2       \* updates of the block information by the poller
NumObservers == 2     \* tasks calling observe on the signature statuses

\* Option::None of a struct, and of the error string
None == [none |-> TRUE]
NoError == "None"

Signatures == {"S1", "S2"}
CommitmentLevels == {"confirmed", "finalized"}
Slots == {101, 105}
ErrorStrings == {"InstructionError"}
Conns == 1..NumConns

(***************************************************************************)
(* SubscriptionParams: the keys of the registry.  Connections register     *)
(* every kind of key for signature S1, one key for S2, and the slot key.   *)
(***************************************************************************)
SignatureSubscriptionParams ==
    {p \in [kind : {"Signature"}, signature : Signatures,
            commitment : CommitmentLevels, enable_received_notification : BOOLEAN] :
        \/ p.signature = "S1"
        \/ p.commitment = "confirmed" /\ ~p.enable_received_notification}

SlotSubscriptionParams == [kind |-> "Slot"]

SubscriptionParams == SignatureSubscriptionParams \cup {SlotSubscriptionParams}

(***************************************************************************)
(* NotificationType: what the ingestion queue carries.  The source reports *)
(* S1 confirmed in slot 101 and finalized in slot 105, with or without an  *)
(* error, S2 confirmed in slot 105, and the two slots.                     *)
(***************************************************************************)
SignatureNotification ==
    {d \in [signature : Signatures, commitment : CommitmentLevels, slot : Slots,
            error : ErrorStrings \cup {NoError}] :
        \/ /\ d.signature = "S1"
           /\ d.slot = (IF d.commitment = "confirmed" THEN 101 ELSE 105)
        \/ /\ d.signature = "S2"
           /\ d.commitment = "confirmed" /\ d.slot = 105 /\ d.error = NoError}

NotificationType ==
    [kind : {"Signature"}, data : SignatureNotification]
        \cup [kind : {"Slot"}, slot : Slots]

VARIABLES
    subscriptions,          \* DashMap<SubscriptionParams, SubscriptionId>: set of <<key, id>>
    next_id,                \* next id the registry mints
    conn_sub,               \* per connection: the [key, id] it registered, or None
    queue,                  \* the ingestion queue: Seq of [seq, ev]
    next_seq,               \* number the next enqueued event gets
    senders,                \* live Sender handles of the ingestion queue
    dispatcher,             \* where start_broadcasting stands
    notification_type,      \* the event start_broadcasting is handling
    rpc_notification,       \* the Option<LiteRpcNotification> it built
    now,                    \* the monotonic clock read by Instant::now()
    recv_errors,            \* error lines printed by the Err branch
    broadcast,              \* every envelope the broadcast channel accepted
    sent_for,               \* for each of them, the number of the event it was built from
    receivers,              \* per connection: its broadcast Receiver, or None
    signature_status,       \* LiteRpcContext.signature_status
    confirmed_block_info,   \* LiteRpcContext.confirmed_block_info
    finalized_block_info,   \* LiteRpcContext.finalized_block_info
    ctx_pc,                 \* where LiteRpcContext::new stands
    new_slot,               \* BlockInformation::new: its local slot
    new_confirmed,          \* LiteRpcContext::new: the confirmed BlockInformation built
    upstream_failed,        \* an upstream query of the construction has failed
    updater,                \* the poller's update under way, or None
    updates,                \* updates the poller has begun
    reader,                 \* a request handler's read under way, or None
    read_result,            \* the snapshot its last read returned, or None
    status_lock,            \* the RwLock of signature_status: its writer, or 0
    observers               \* per observing task: where its observe call stands

registry_vars == <<subscriptions, next_id, conn_sub>>
queue_vars == <<queue, next_seq, senders>>
dispatcher_vars == <<dispatcher, notification_type, rpc_notification, now, recv_errors>>
fanout_vars == <<broadcast, sent_for>>
consumer_vars == <<receivers>>
block_vars == <<confirmed_block_info, finalized_block_info, ctx_pc, new_slot,
                new_confirmed, upstream_failed, updater, updates, reader, read_result>>
status_vars == <<signature_status, status_lock, observers>>
context_vars == <<block_vars, status_vars>>

vars == <<subscriptions, next_id, conn_sub, queue, next_seq, senders, dispatcher,
          notification_type, rpc_notification, now, recv_errors, broadcast,
          sent_for, receivers, signature_status,
          confirmed_block_info, finalized_block_info, ctx_pc, new_slot,
          new_confirmed, upstream_failed, updater, updates, reader, read_result,
          status_lock, observers>>

(***************************************************************************)
(* DashMap<SubscriptionParams, SubscriptionId> as the set of its entries.  *)
(***************************************************************************)
DashContains(m, k) == \E e \in m : e[1] = k

DashGet(m, k) == (CHOOSE e \in m : e[1] = k)[2]

DashInsert(m, k, v) == {e \in m : e[1] # k} \cup {<<k, v>>}

DashRemoveId(m, id) == {e \in m : e[2] # id}

(***************************************************************************)
(* BlockInformation::new and LiteRpcContext::new.                          *)
(***************************************************************************)
BlockInformationNew(commitment, upstream) ==
    [block_hash |-> upstream.blockhash, block_height |-> upstream.blockheight,
     slot |-> upstream.slot, confirmation_level |-> commitment]

(***************************************************************************)
(* The key start_broadcasting builds from a SignatureNotification.         *)
(***************************************************************************)
SignatureParamReceived(data) ==
    [kind |-> "Signature", signature |-> data.signature,
     commitment |-> data.commitment, enable_received_notification |-> TRUE]

SignatureParam(data) ==
    [kind |-> "Signature", signature |-> data.signature,
     commitment |-> data.commitment, enable_received_notification |-> FALSE]

(***************************************************************************)
(* impl From<RpcNotificationResponse<T>> for Response<T>.                  *)
(***************************************************************************)
ResponseFrom(notification) ==
    [context |-> [slot |-> notification.context.slot, api_version |-> None],
     value |-> notification.value]

(***************************************************************************)
(* serde_json::to_string(&notification): the JSON object, field by field.  *)
(* jsonrpc Some(V2) is written "2.0", the unit variant ReceivedSignature   *)
(* is written "receivedSignature", an api_version of None is left out.     *)
(***************************************************************************)
ToJson(notification) ==
    [jsonrpc |-> IF notification.jsonrpc = "V2" THEN "2.0" ELSE "null",
     method |-> notification.method,
     params |->
        [result |->
            [context |-> [slot |-> notification.params.result.context.slot],
             value |-> IF notification.params.result.value = "ReceivedSignature"
                       THEN "receivedSignature"
                       ELSE notification.params.result.value],
         subscription |-> notification.params.subscription]]

(***************************************************************************)
(* The Occupied arm: the envelope built for a registered signature key.    *)
(***************************************************************************)
OccupiedNotificationSlotId(subscription_id, data, instant) ==
    LET value == ResponseFrom([context |-> [slot |-> data.slot],
                               value |-> "ReceivedSignature"])
        notification == [jsonrpc |-> "V2",
                         method |-> "signatureSubscription",
                         params |-> [result |-> value, subscription |-> 0]]
    IN  [subscription_id |-> subscription_id,
         created_at |-> instant,
         is_final |-> FALSE,
         json |-> ToJson(notification)]

OccupiedNotification(subscription_id, data, instant) ==
    LET value == ResponseFrom([context |-> [slot |-> data.slot],
                               value |-> "ReceivedSignature"])
        notification == [jsonrpc |-> "V2",
                         method |-> "signatureSubscription",
                         params |-> [result |-> value,
                                     subscription |-> subscription_id]]
    IN  [subscription_id |-> subscription_id,
         created_at |-> instant,
         is_final |-> FALSE,
         json |-> ToJson(notification)]

(***************************************************************************)
(* The Vacant arm: the entry is dropped without inserting; the map is      *)
(* what it was.                                                            *)
(***************************************************************************)
VacantInserting(m, param) == DashInsert(m, param, 0)

VacantEntry(m, param) == m

(***************************************************************************)
(* crossbeam_channel::Receiver::recv on a non-empty channel: the oldest    *)
(* message, and the channel without it.                                    *)
(***************************************************************************)
ChannelRecvNewest(q) == [msg |-> q[Len(q)], rest |-> SubSeq(q, 1, Len(q) - 1)]

ChannelRecvPeek(q) == [msg |-> Head(q), rest |-> q]

ChannelRecv(q) == [msg |-> Head(q), rest |-> Tail(q)]

(***************************************************************************)
(* tokio broadcast: number of live Receivers of the channel.               *)
(***************************************************************************)
ReceiverCount(rx) == Cardinality({c \in Conns : rx[c] # None})

Min(a, b) == IF a < b THEN a ELSE b

Max(a, b) == IF a > b THEN a ELSE b

(***************************************************************************)
(* tokio broadcast: Sender::subscribe gives a Receiver that starts at the  *)
(* tail; Receiver::recv gives the next value, or Lagged(n) when the n      *)
(* values after its position were overwritten (the channel keeps the last  *)
(* FanoutSize values), and then moves to the oldest value kept.            *)
(***************************************************************************)
BroadcastSubscribe(log) == [next |-> Len(log)]

BroadcastRecvSkipping(log, rx) ==
    LET oldest == Max(0, Len(log) - FanoutSize)
    IN  IF rx.next < oldest
        THEN [result |-> [ok |-> log[oldest + 1]], rx |-> [next |-> oldest + 1]]
        ELSE [result |-> [ok |-> log[rx.next + 1]], rx |-> [next |-> rx.next + 1]]

BroadcastRecv(log, rx) ==
    LET oldest == Max(0, Len(log) - FanoutSize)
    IN  IF rx.next < oldest
        THEN [result |-> [lagged |-> oldest - rx.next], rx |-> [next |-> oldest]]
        ELSE [result |-> [ok |-> log[rx.next + 1]], rx |-> [next |-> rx.next + 1]]

(***************************************************************************)
(* SubscriptionRegistry.register: the id of a key already present, or a    *)
(* freshly minted one inserted for it.                                     *)
(***************************************************************************)
RegisterAlwaysMinting(m, nid, k) ==
    [map |-> m \cup {<<k, nid>>}, id |-> nid, next |-> nid + 1]

RegistryRegister(m, nid, k) ==
    IF DashContains(m, k)
    THEN [map |-> m, id |-> DashGet(m, k), next |-> nid]
    ELSE [map |-> DashInsert(m, k, nid), id |-> nid, next |-> nid + 1]

\* LiteRpcSubsrciptionControl::new, and the channels handed to it
ControlInit ==
    /\ subscriptions = {}
    /\ next_id = 1
    /\ conn_sub = [c \in Conns |-> None]
    /\ queue = <<>>
    /\ next_seq = 1
    /\ senders = NumProducers
    /\ dispatcher = "recv"
    /\ notification_type = None
    /\ rpc_notification = None
    /\ now = 0
    /\ recv_errors = 0
    /\ broadcast = <<>>
    /\ sent_for = <<>>
    /\ receivers = [c \in Conns |-> None]

\* no task is at work on the LiteRpcContext
ContextIdle ==
    /\ new_slot = None
    /\ new_confirmed = None
    /\ upstream_failed = FALSE
    /\ updater = None
    /\ updates = 0
    /\ reader = None
    /\ read_result = None
    /\ status_lock = 0
    /\ observers = [p \in 1..NumObservers |-> [at |-> "idle"]]

Init ==
    /\ ContextIdle
    /\ ctx_pc = "ready"
    /\ subscriptions = {}
    /\ next_id = 1
    /\ conn_sub = [c \in Conns |-> None]
    /\ queue = <<>>
    /\ next_seq = 1
    /\ senders = NumProducers
    /\ dispatcher = "recv"
    /\ notification_type = None
    /\ rpc_notification = None
    /\ now = 0
    /\ recv_errors = 0
    /\ broadcast = <<>>
    /\ sent_for = <<>>
    /\ receivers = [c \in Conns |-> None]
    /\ signature_status = <<>>
    /\ confirmed_block_info =
         BlockInformationNew("confirmed",
             [slot |-> 100, blockhash |-> "hash100", blockheight |-> 90])
    /\ finalized_block_info =
         BlockInformationNew("finalized",
             [slot |-> 68, blockhash |-> "hash68", blockheight |-> 58])

(***************************************************************************)
(* Connection handlers: the registry.                                      *)
(***************************************************************************)
Register(c, k) ==
    /\ conn_sub[c] = None
    /\ DashContains(subscriptions, k) \/ next_id <= MaxIds
    /\ LET r == RegistryRegister(subscriptions, next_id, k)
       IN  /\ subscriptions' = r.map
           /\ next_id' = r.next
           /\ conn_sub' = [conn_sub EXCEPT ![c] = [key |-> k, id |-> r.id]]
    /\ UNCHANGED <<queue_vars, dispatcher_vars, fanout_vars, consumer_vars, context_vars>>

Unregister(c) ==
    /\ conn_sub[c] # None
    /\ subscriptions' = DashRemoveId(subscriptions, conn_sub[c].id)
    /\ conn_sub' = [conn_sub EXCEPT ![c] = None]
    /\ UNCHANGED <<next_id, queue_vars, dispatcher_vars, fanout_vars, consumer_vars,
                   context_vars>>

(***************************************************************************)
(* Connection handlers: the fanout consumer (a broadcast Receiver).        *)
(***************************************************************************)
Attach(c) ==
    /\ receivers[c] = None
    /\ receivers' = [receivers EXCEPT ![c] = BroadcastSubscribe(broadcast)]
    /\ UNCHANGED <<registry_vars, queue_vars, dispatcher_vars, fanout_vars, context_vars>>

Detach(c) ==
    /\ receivers[c] # None
    /\ receivers' = [receivers EXCEPT ![c] = None]
    /\ UNCHANGED <<registry_vars, queue_vars, dispatcher_vars, fanout_vars, context_vars>>

\* Receiver::recv when it does not have to wait
ConsumerRecv(c) ==
    /\ receivers[c] # None
    /\ receivers[c].next < Len(broadcast)
    /\ receivers' = [receivers EXCEPT ![c] = BroadcastRecv(broadcast, receivers[c]).rx]
    /\ UNCHANGED <<registry_vars, queue_vars, dispatcher_vars, fanout_vars, context_vars>>

(***************************************************************************)
(* Producers of the ingestion queue.                                       *)
(***************************************************************************)
Enqueue(ev) ==
    /\ senders > 0
    /\ next_seq <= MaxEvents
    /\ queue' = Append(queue, [seq |-> next_seq, ev |-> ev])
    /\ next_seq' = next_seq + 1
    /\ UNCHANGED <<registry_vars, senders, dispatcher_vars, fanout_vars, consumer_vars,
                   context_vars>>

DropProducer ==
    /\ senders > 0
    /\ senders' = senders - 1
    /\ UNCHANGED <<registry_vars, queue, next_seq, dispatcher_vars, fanout_vars,
                   consumer_vars, context_vars>>

(***************************************************************************)
(* start_broadcasting: self.notification_reciever.recv()                   *)
(***************************************************************************)
QueueClosed == senders = 0

\* Err(e): the channel is empty and every Sender is gone; the error is
\* printed and the loop goes round again.
DispatcherRecvErr ==
    /\ dispatcher = "recv"
    /\ queue = <<>>
    /\ QueueClosed
    /\ recv_errors' = Min(recv_errors + 1, MaxRecvErrors)
    /\ dispatcher' = "recv"
    /\ UNCHANGED <<registry_vars, queue_vars, notification_type, rpc_notification, now,
                   fanout_vars, consumer_vars, context_vars>>

(***************************************************************************)
(* start_broadcasting: Ok(notification_type), and                          *)
(*     let rpc_notification = match notification_type { .. }               *)
(* recv touches the channel alone and the match the registry alone, so the *)
(* two are taken as one step: the registry read is the one at lookup time. *)
(***************************************************************************)
Received == ChannelRecv(queue).msg

MatchSignatureOccupied ==
    /\ dispatcher = "recv"
    /\ queue # <<>>
    /\ Received.ev.kind = "Signature"
    /\ LET data == Received.ev.data
           param == SignatureParam(data)
       IN  /\ DashContains(subscriptions, param)
           /\ rpc_notification' =
                OccupiedNotification(DashGet(subscriptions, param), data, now + 1)
    /\ notification_type' = Received
    /\ queue' = ChannelRecv(queue).rest
    /\ now' = now + 1
    /\ dispatcher' = "send"
    /\ UNCHANGED <<registry_vars, next_seq, senders, recv_errors, fanout_vars,
                   consumer_vars, context_vars>>

MatchSignatureVacant ==
    /\ dispatcher = "recv"
    /\ queue # <<>>
    /\ Received.ev.kind = "Signature"
    /\ LET param == SignatureParam(Received.ev.data)
       IN  /\ ~DashContains(subscriptions, param)
           /\ subscriptions' = VacantEntry(subscriptions, param)
    /\ rpc_notification' = None
    /\ notification_type' = Received
    /\ queue' = ChannelRecv(queue).rest
    /\ now' = now + 1
    /\ dispatcher' = "send"
    /\ UNCHANGED <<next_id, conn_sub, next_seq, senders, recv_errors, fanout_vars,
                   consumer_vars, context_vars>>

\* NotificationType::Slot(slot) => None
MatchSlot ==
    /\ dispatcher = "recv"
    /\ queue # <<>>
    /\ Received.ev.kind = "Slot"
    /\ rpc_notification' = None
    /\ notification_type' = Received
    /\ queue' = ChannelRecv(queue).rest
    /\ now' = now + 1
    /\ dispatcher' = "send"
    /\ UNCHANGED <<registry_vars, next_seq, senders, recv_errors, fanout_vars,
                   consumer_vars, context_vars>>

DispatcherRecvOk == MatchSignatureOccupied \/ MatchSignatureVacant \/ MatchSlot

(***************************************************************************)
(* start_broadcasting: if let Some(..) { broadcast_sender.send(..).unwrap() }*)
(***************************************************************************)
\* (a dispatcher that sends once per live Receiver)
SendOkPerReceiver ==
    /\ dispatcher = "send"
    /\ rpc_notification # None
    /\ ReceiverCount(receivers) > 0
    /\ broadcast' = broadcast
            \o [i \in 1..ReceiverCount(receivers) |-> rpc_notification]
    /\ sent_for' = sent_for
            \o [i \in 1..ReceiverCount(receivers) |-> notification_type.seq]
    /\ dispatcher' = "recv"
    /\ notification_type' = None
    /\ rpc_notification' = None
    /\ UNCHANGED <<registry_vars, queue_vars, now, recv_errors, consumer_vars,
                   context_vars>>

\* (a dispatcher that drops the registry entry once its envelope is out)
SendOkEvicting ==
    /\ dispatcher = "send"
    /\ rpc_notification # None
    /\ ReceiverCount(receivers) > 0
    /\ broadcast' = Append(broadcast, rpc_notification)
    /\ sent_for' = Append(sent_for, notification_type.seq)
    /\ subscriptions' = DashRemoveId(subscriptions, rpc_notification.subscription_id)
    /\ dispatcher' = "recv"
    /\ notification_type' = None
    /\ rpc_notification' = None
    /\ UNCHANGED <<next_id, conn_sub, queue_vars, now, recv_errors, consumer_vars,
                   context_vars>>

\* send returns Ok: the value is stored once, for every live Receiver.
SendOk ==
    /\ dispatcher = "send"
    /\ rpc_notification # None
    /\ ReceiverCount(receivers) > 0
    /\ broadcast' = Append(broadcast, rpc_notification)
    /\ sent_for' = Append(sent_for, notification_type.seq)
    /\ dispatcher' = "recv"
    /\ notification_type' = None
    /\ rpc_notification' = None
    /\ UNCHANGED <<registry_vars, queue_vars, now, recv_errors, consumer_vars,
                   context_vars>>

\* send returns Err(SendError) when no Receiver is alive; unwrap panics.
SendNoReceivers ==
    /\ dispatcher = "send"
    /\ rpc_notification # None
    /\ ReceiverCount(receivers) = 0
    /\ dispatcher' = "panicked"
    /\ UNCHANGED <<registry_vars, queue_vars, notification_type, rpc_notification, now,
                   recv_errors, fanout_vars, consumer_vars, context_vars>>

\* rpc_notification is None: nothing is sent.
SendNothing ==
    /\ dispatcher = "send"
    /\ rpc_notification = None
    /\ dispatcher' = "recv"
    /\ notification_type' = None
    /\ UNCHANGED <<registry_vars, queue_vars, rpc_notification, now, recv_errors,
                   fanout_vars, consumer_vars, context_vars>>

DispatcherSend == SendOk \/ SendNoReceivers \/ SendNothing

Dispatcher == DispatcherRecvOk \/ DispatcherRecvErr \/ DispatcherSend

Next ==
    \/ \E c \in Conns, k \in SubscriptionParams : Register(c, k)
    \/ \E c \in Conns : Unregister(c)
    \/ \E c \in Conns : Attach(c)
    \/ \E c \in Conns : Detach(c)
    \/ \E c \in Conns : ConsumerRecv(c)
    \/ \E ev \in NotificationType : Enqueue(ev)
    \/ DropProducer
    \/ Dispatcher

Spec == Init /\ [][Next]_vars

(***************************************************************************)
(* Steps of the dispatcher, as seen in a pair of states.                   *)
(***************************************************************************)
\* the recv and the match of one event
LookupStep == dispatcher = "recv" /\ dispatcher' = "send"

\* the if-let-Some-send of one event
SendStep == dispatcher = "send" /\ dispatcher' # "send"

\* the registry key an inbound event is looked up under
KeyOf(ev) == IF ev.kind = "Signature" THEN SignatureParam(ev.data)
             ELSE SlotSubscriptionParams

\* connection c holds a subscription the registry still has
Live(c) == conn_sub[c] # None /\ <<conn_sub[c].key, conn_sub[c].id>> \in subscriptions

(***************************************************************************)
(* C1: an event whose key is not in the registry at lookup time yields no  *)
(* envelope (rpc_notification is None, and a None is never sent), and its  *)
(* handling leaves the registry, the broadcast channel, the block          *)
(* information and the signature statuses as they were; the lookup inserts *)
(* nothing.                                                                *)
(***************************************************************************)
C1_MissLeavesNoTrace ==
    [][ /\ (LookupStep /\ ~DashContains(subscriptions, KeyOf(Received.ev)))
            => /\ rpc_notification' = None
               /\ UNCHANGED <<subscriptions, broadcast, context_vars>>
        /\ (SendStep /\ rpc_notification = None)
            => /\ dispatcher' = "recv"
               /\ UNCHANGED <<subscriptions, broadcast, context_vars>>
      ]_vars

\* a signature event has just missed a registry that holds other keys
C1_Witness ==
    /\ dispatcher = "send"
    /\ notification_type.ev.kind = "Signature"
    /\ rpc_notification = None
    /\ subscriptions # {}
    /\ ~DashContains(subscriptions, KeyOf(notification_type.ev))

(***************************************************************************)
(* C2: a SignatureObserved event whose key is registered yields exactly    *)
(* one envelope, published once, whose subscription is the registered id   *)
(* and whose is_final is false for "confirmed" and true for "finalized".   *)
(***************************************************************************)
C2_OneEnvelopeFinalOnFinalized ==
    [][ /\ (/\ LookupStep
            /\ Received.ev.kind = "Signature"
            /\ DashContains(subscriptions, KeyOf(Received.ev)))
            => /\ rpc_notification' # None
               /\ rpc_notification'.subscription_id
                    = DashGet(subscriptions, KeyOf(Received.ev))
               /\ rpc_notification'.is_final
                    = (Received.ev.data.commitment = "finalized")
        /\ (SendStep /\ rpc_notification # None)
            => broadcast' = Append(broadcast, rpc_notification)
      ]_vars

(***************************************************************************)
(* C3: when the dispatcher finds the ingestion queue closed (no Sender     *)
(* left) and drained, it returns.  recv on a closed, empty channel does    *)
(* not wait, so what the loop does next is decided in that very step.      *)
(***************************************************************************)
C3_ReturnsOnClosedQueue ==
    [][ (/\ dispatcher = "recv"
         /\ queue = <<>>
         /\ QueueClosed
         /\ recv_errors' # recv_errors)
            => dispatcher' = "returned"
      ]_vars

(***************************************************************************)
(* C4: while the ingestion queue is open the dispatcher is never aborted,  *)
(* whatever the connection handlers do.                                    *)
(***************************************************************************)
C4_NeverAborted == ~QueueClosed => dispatcher # "panicked"

(***************************************************************************)
(* C5: events are handled one at a time in the order they were enqueued    *)
(* (the k-th event taken off the queue is the k-th enqueued), and the      *)
(* envelopes are published in that order.                                  *)
(***************************************************************************)
C5_PublishedInQueueOrder ==
    /\ notification_type # None => notification_type.seq = now
    /\ \A i \in 1..Len(queue) : queue[i].seq = now + i
    /\ \A i, j \in 1..Len(sent_for) : i < j => sent_for[i] < sent_for[j]
    /\ Len(broadcast) = Len(sent_for)
    /\ \A i \in 1..Len(broadcast) : broadcast[i].created_at = sent_for[i]

\* the envelopes of two events have been published
C5_Witness == Len(sent_for) = 2 /\ sent_for[1] = 1 /\ sent_for[2] = 2

(***************************************************************************)
(* C6: a SlotAdvanced event handled while the slot key is registered       *)
(* yields an envelope for the slot subscription, with is_final false.      *)
(***************************************************************************)
C6_SlotEnvelope ==
    [][ (/\ LookupStep
         /\ Received.ev.kind = "Slot"
         /\ DashContains(subscriptions, SlotSubscriptionParams))
            => /\ rpc_notification' # None
               /\ rpc_notification'.subscription_id
                    = DashGet(subscriptions, SlotSubscriptionParams)
               /\ rpc_notification'.is_final = FALSE
      ]_vars

(***************************************************************************)
(* C7: the envelope of a matched SignatureObserved event carries the       *)
(* event's slot in context.slot, and as value the success marker when the  *)
(* event has no error and the error string when it has one.                *)
(***************************************************************************)
C7_PayloadSlotAndValue ==
    [][ (/\ LookupStep
         /\ Received.ev.kind = "Signature"
         /\ DashContains(subscriptions, KeyOf(Received.ev)))
            => /\ rpc_notification' # None
               /\ rpc_notification'.json.params.result.context.slot
                    = Received.ev.data.slot
               /\ rpc_notification'.json.params.result.value
                    = (IF Received.ev.data.error = NoError
                       THEN "receivedSignature"
                       ELSE Received.ev.data.error)
      ]_vars

(***************************************************************************)
(* C8: with S1 registered at "confirmed" under id I, the event             *)
(* {S1, confirmed, 101, no error} yields an envelope with subscription I,  *)
(* context.slot 101 and is_final false; and once that envelope is out and  *)
(* I is still registered, the event {S1, finalized, 105, no error} yields  *)
(* a second envelope with subscription I and is_final true.                *)
(***************************************************************************)
S1Confirmed ==
    [kind |-> "Signature", signature |-> "S1", commitment |-> "confirmed",
     enable_received_notification |-> FALSE]

C8_ConfirmedThenFinalized ==
    [][ LookupStep /\ DashContains(subscriptions, S1Confirmed) =>
        LET I == DashGet(subscriptions, S1Confirmed)
        IN  /\ Received.ev = [kind |-> "Signature",
                              data |-> [signature |-> "S1", commitment |-> "confirmed",
                                        slot |-> 101, error |-> NoError]]
                => /\ rpc_notification' # None
                   /\ rpc_notification'.subscription_id = I
                   /\ rpc_notification'.json.params.result.context.slot = 101
                   /\ rpc_notification'.is_final = FALSE
            /\ (/\ Received.ev = [kind |-> "Signature",
                                  data |-> [signature |-> "S1",
                                            commitment |-> "finalized",
                                            slot |-> 105, error |-> NoError]]
                /\ broadcast # <<>>
                /\ broadcast[Len(broadcast)].subscription_id = I
                /\ broadcast[Len(broadcast)].json.params.result.context.slot = 101)
                => /\ rpc_notification' # None
                   /\ rpc_notification'.subscription_id = I
                   /\ rpc_notification'.is_final = TRUE
      ]_vars

(***************************************************************************)
(* C9: a connection that registers a key another connection holds live     *)
(* gets that connection's id; a matched event is published as exactly one  *)
(* envelope, and right after the publish that envelope is what every       *)
(* attached consumer's receives end with.                                  *)
(***************************************************************************)
RECURSIVE RecvAll(_, _)
RecvAll(log, rx) ==
    IF rx.next >= Len(log) THEN <<>>
    ELSE LET r == BroadcastRecv(log, rx)
         IN  <<r.result>> \o RecvAll(log, r.rx)

C9_SharedIdOneEnvelopeAllConsumers ==
    [][ /\ \A c \in Conns : (conn_sub[c] = None /\ conn_sub'[c] # None) =>
              \A d \in Conns \ {c} :
                  (Live(d) /\ conn_sub[d].key = conn_sub'[c].key)
                      => conn_sub'[c].id = conn_sub[d].id
        /\ (SendStep /\ rpc_notification # None /\ dispatcher' = "recv") =>
              /\ broadcast' = Append(broadcast, rpc_notification)
              /\ \A c \in Conns : receivers[c] # None =>
                    LET got == RecvAll(broadcast', receivers'[c])
                    IN  got # <<>> /\ got[Len(got)] = [ok |-> rpc_notification]
      ]_vars

\* two connections hold the same live subscription, both consumers were
\* attached before its envelope was published and have yet to receive it
C9_Witness ==
    /\ Live(1) /\ Live(2)
    /\ conn_sub[1] = conn_sub[2]
    /\ receivers[1] # None /\ receivers[2] # None
    /\ Len(broadcast) = 1
    /\ receivers[1].next = 0 /\ receivers[2].next = 0
    /\ broadcast[1].subscription_id = conn_sub[1].id

(***************************************************************************)
(* C10: in every state each key of the registry has one id, and            *)
(* registering a key that is present returns the id it has, mints none and *)
(* leaves the registry as it was.                                          *)
(***************************************************************************)
UniqueKeys(m) == \A e1, e2 \in m : e1[1] = e2[1] => e1 = e2

C10_OneIdPerKey ==
    [][ /\ UniqueKeys(subscriptions')
        /\ \A c \in Conns :
              (/\ conn_sub[c] = None
               /\ conn_sub'[c] # None
               /\ DashContains(subscriptions, conn_sub'[c].key))
                  => /\ conn_sub'[c].id = DashGet(subscriptions, conn_sub'[c].key)
                     /\ next_id' = next_id
                     /\ subscriptions' = subscriptions
      ]_vars

\* a second registration of a live key has returned the id it had
C10_Witness ==
    /\ Live(1) /\ Live(2)
    /\ conn_sub[1] = conn_sub[2]
    /\ next_id = 2

(***************************************************************************)
(* C12: no step of the dispatcher (the lookup of an event, hit or miss,    *)
(* the send of its envelope, the Err branch) changes the registry; an      *)
(* entry leaves the registry only when a connection unregisters.           *)
(***************************************************************************)
C12_DispatcherKeepsRegistry ==
    [][ /\ (LookupStep \/ SendStep \/ recv_errors' # recv_errors)
            => subscriptions' = subscriptions
        /\ (\E e \in subscriptions : e \notin subscriptions')
            => \E c \in Conns : conn_sub[c] # None /\ conn_sub'[c] = None
      ]_vars

\* an envelope has been published and the registry still maps its key to its id
C12_Witness ==
    /\ dispatcher = "recv"
    /\ broadcast # <<>>
    /\ \E c \in Conns :
          Live(c) /\ conn_sub[c].id = broadcast[Len(broadcast)].subscription_id

(***************************************************************************)
(* C13: what an attached consumer receives from its position on is, first, *)
(* a lag notice counting the envelopes it missed if the channel no longer  *)
(* keeps the one at its position, and then every envelope the channel      *)
(* keeps, in order: each envelope published since it attached is delivered *)
(* or counted in a lag notice, none is skipped in silence.                 *)
(***************************************************************************)
Oldest(log) == Max(0, Len(log) - FanoutSize)

C13_LagIsTold ==
    \A c \in Conns : receivers[c] # None =>
        LET rx == receivers[c]
            from == Max(rx.next, Oldest(broadcast))
            got == RecvAll(broadcast, rx)
            notice == IF rx.next < Oldest(broadcast)
                      THEN <<[lagged |-> Oldest(broadcast) - rx.next]>>
                      ELSE <<>>
        IN  got = notice \o [i \in 1..(Len(broadcast) - from) |->
                                [ok |-> broadcast[from + i]]]

\* a consumer is more than the channel's capacity behind
C13_Witness ==
    \E c \in Conns :
        /\ receivers[c] # None
        /\ receivers[c].next < Len(broadcast) - FanoutSize

(***************************************************************************)
(* C17: a SignatureObserved event yields an envelope exactly when the      *)
(* registry holds the key with the event's signature, the event's          *)
(* commitment and enable_received_notification = false, and then under     *)
(* that key's id; keys of the same signature with another commitment or    *)
(* with enable_received_notification = true yield none.                    *)
(***************************************************************************)
ExactKey(data) ==
    [kind |-> "Signature", signature |-> data.signature,
     commitment |-> data.commitment, enable_received_notification |-> FALSE]

C17_ExactKeyOnly ==
    [][ (LookupStep /\ Received.ev.kind = "Signature") =>
            LET hits == {e \in subscriptions : e[1] = ExactKey(Received.ev.data)}
            IN  /\ (rpc_notification' # None) <=> (hits # {})
                /\ rpc_notification' # None
                      => \E e \in hits : rpc_notification'.subscription_id = e[2]
      ]_vars

\* an S1 event has just missed a registry that holds only other keys of S1
C17_Witness ==
    /\ dispatcher = "send"
    /\ notification_type.ev.kind = "Signature"
    /\ notification_type.ev.data.signature = "S1"
    /\ rpc_notification = None
    /\ Cardinality(subscriptions) = 2
    /\ \A e \in subscriptions :
          /\ e[1].kind = "Signature"
          /\ e[1].signature = "S1"
          /\ e[1] # ExactKey(notification_type.ev.data)

(***************************************************************************)
(* C18: the envelope built for an event carries the id the registry maps   *)
(* the event's key to in the state of the lookup, the same id in its JSON  *)
(* payload, and is published as built; so every envelope ever published    *)
(* has equal subscription_id and payload subscription, an id the registry  *)
(* has minted.                                                             *)
(***************************************************************************)
C18_IdOfLookup ==
    [][ /\ (LookupStep /\ rpc_notification' # None) =>
              /\ <<KeyOf(Received.ev), rpc_notification'.subscription_id>>
                    \in subscriptions
              /\ rpc_notification'.json.params.subscription
                    = rpc_notification'.subscription_id
        /\ (SendStep /\ broadcast' # broadcast) =>
              broadcast' = Append(broadcast, rpc_notification)
        /\ \A i \in 1..Len(broadcast') :
              /\ broadcast'[i].json.params.subscription = broadcast'[i].subscription_id
              /\ broadcast'[i].subscription_id \in 1..(next_id' - 1)
      ]_vars

\* an envelope is out whose id the registry no longer holds: its key was
\* unregistered after the lookup
C18_Witness ==
    /\ broadcast # <<>>
    /\ \A e \in subscriptions : e[2] # broadcast[1].subscription_id

(***************************************************************************)
(* C19: every enqueued event is either still queued or was taken off the   *)
(* queue once, and the envelopes published are never more than the events  *)
(* taken off: none before the first, at most one for each.                 *)
(***************************************************************************)
C19_AtMostOnePerEvent ==
    /\ now + Len(queue) = next_seq - 1
    /\ Len(broadcast) <= now
    /\ (dispatcher = "send" /\ rpc_notification # None) => Len(broadcast) < now
    /\ \A i, j \in 1..Len(sent_for) : i # j => sent_for[i] # sent_for[j]

\* two events were taken off the queue, one was dropped and one published
C19_Witness ==
    /\ now = 2
    /\ dispatcher = "recv"
    /\ Len(broadcast) = 1

(***************************************************************************)
(* The upstream node: the blocks it reports, the first one while the       *)
(* context is built and one more at each update of the poller.             *)
(***************************************************************************)
BlockHashes == <<"hashA", "hashB", "hashC", "hashD", "hashE", "hashF">>

UpstreamBlock(b) ==
    [slot |-> 100 + b, blockhash |-> BlockHashes[b], blockheight |-> 90 + b]

\* Result<T>: what a query of the upstream node returns
Ok(v) == [ok |-> TRUE, value |-> v]
Err == [ok |-> FALSE]

SlotResults == {Ok(UpstreamBlock(1).slot), Err}

BlockhashResults ==
    {Ok([blockhash |-> UpstreamBlock(1).blockhash,
         blockheight |-> UpstreamBlock(1).blockheight]), Err}

core_vars == <<registry_vars, queue_vars, dispatcher_vars, fanout_vars, consumer_vars>>

(***************************************************************************)
(* LiteRpcContext::new: BlockInformation::new for Confirmed, then for      *)
(* Finalized; each asks the slot, unwraps, asks the latest blockhash,      *)
(* unwraps.  The context exists once all four have returned.               *)
(***************************************************************************)
LevelUnderWay ==
    IF ctx_pc \in {"confirmed_slot", "confirmed_blockhash"} THEN "confirmed"
    ELSE "finalized"

\* (a get_slot whose error is replaced by slot 0)
NewGetSlotOrDefault(result) ==
    /\ ctx_pc \in {"confirmed_slot", "finalized_slot"}
    /\ upstream_failed' = (upstream_failed \/ ~result.ok)
    /\ new_slot' = IF result.ok THEN result.value ELSE 0
    /\ ctx_pc' = IF ctx_pc = "confirmed_slot" THEN "confirmed_blockhash"
                 ELSE "finalized_blockhash"
    /\ UNCHANGED <<core_vars, status_vars, confirmed_block_info, finalized_block_info,
                   new_confirmed, updater, updates, reader, read_result>>

\* rpc_client.get_slot_with_commitment(..).unwrap()
NewGetSlot(result) ==
    /\ ctx_pc \in {"confirmed_slot", "finalized_slot"}
    /\ upstream_failed' = (upstream_failed \/ ~result.ok)
    /\ IF result.ok
       THEN /\ new_slot' = result.value
            /\ ctx_pc' = IF ctx_pc = "confirmed_slot" THEN "confirmed_blockhash"
                         ELSE "finalized_blockhash"
       ELSE /\ new_slot' = new_slot
            /\ ctx_pc' = "panicked"
    /\ UNCHANGED <<core_vars, status_vars, confirmed_block_info, finalized_block_info,
                   new_confirmed, updater, updates, reader, read_result>>

\* rpc_client.get_latest_blockhash_with_commitment(..).unwrap(), and the
\* BlockInformation built from the two answers
NewGetBlockhash(result) ==
    /\ ctx_pc \in {"confirmed_blockhash", "finalized_blockhash"}
    /\ upstream_failed' = (upstream_failed \/ ~result.ok)
    /\ IF ~result.ok
       THEN /\ ctx_pc' = "panicked"
            /\ UNCHANGED <<new_slot, new_confirmed, confirmed_block_info,
                           finalized_block_info>>
       ELSE LET info == BlockInformationNew(LevelUnderWay,
                            [slot |-> new_slot,
                             blockhash |-> result.value.blockhash,
                             blockheight |-> result.value.blockheight])
            IN  /\ new_slot' = None
                /\ IF ctx_pc = "confirmed_blockhash"
                   THEN /\ new_confirmed' = info
                        /\ ctx_pc' = "finalized_slot"
                        /\ UNCHANGED <<confirmed_block_info, finalized_block_info>>
                   ELSE /\ confirmed_block_info' = new_confirmed
                        /\ finalized_block_info' = info
                        /\ new_confirmed' = None
                        /\ ctx_pc' = "ready"
    /\ UNCHANGED <<core_vars, status_vars, updater, updates, reader, read_result>>

(***************************************************************************)
(* The poller's update and a handler's read of one BlockInformation.  The  *)
(* three fields are an RwLock<String> and two AtomicU64: each is written   *)
(* and read by an access of its own, in an order the struct leaves open.   *)
(***************************************************************************)
BlockFields == {"block_hash", "block_height", "slot"}

BlockInfoOf(level) ==
    IF level = "confirmed" THEN confirmed_block_info ELSE finalized_block_info

UpdateBegin(level) ==
    /\ ctx_pc = "ready"
    /\ updater = None
    /\ updates < MaxUpdates
    /\ updates' = updates + 1
    /\ updater' = [level |-> level,
                   block |-> [block_hash |-> UpstreamBlock(updates + 2).blockhash,
                              block_height |-> UpstreamBlock(updates + 2).blockheight,
                              slot |-> UpstreamBlock(updates + 2).slot],
                   todo |-> BlockFields]
    /\ UNCHANGED <<core_vars, status_vars, confirmed_block_info, finalized_block_info,
                   ctx_pc, new_slot, new_confirmed, upstream_failed, reader, read_result>>

\* *block_hash.write() = ..   /   block_height.store(..)   /   slot.store(..)
UpdateWrite(f) ==
    /\ updater # None
    /\ f \in updater.todo
    /\ IF updater.level = "confirmed"
       THEN /\ confirmed_block_info' =
                 [confirmed_block_info EXCEPT ![f] = updater.block[f]]
            /\ UNCHANGED finalized_block_info
       ELSE /\ finalized_block_info' =
                 [finalized_block_info EXCEPT ![f] = updater.block[f]]
            /\ UNCHANGED confirmed_block_info
    /\ updater' = IF updater.todo = {f} THEN None
                  ELSE [updater EXCEPT !.todo = updater.todo \ {f}]
    /\ UNCHANGED <<core_vars, status_vars, ctx_pc, new_slot, new_confirmed,
                   upstream_failed, updates, reader, read_result>>

ReadBegin(level) ==
    /\ ctx_pc = "ready"
    /\ reader = None
    /\ reader' = [level |-> level, got |-> <<>>]
    /\ read_result' = None
    /\ UNCHANGED <<core_vars, status_vars, confirmed_block_info, finalized_block_info,
                   ctx_pc, new_slot, new_confirmed, upstream_failed, updater, updates>>

\* block_hash.read().clone()   /   block_height.load(..)   /   slot.load(..)
ReadField(f) ==
    /\ reader # None
    /\ f \in BlockFields \ DOMAIN reader.got
    /\ LET got == [g \in DOMAIN reader.got \cup {f} |->
                      IF g = f THEN BlockInfoOf(reader.level)[f] ELSE reader.got[g]]
       IN  IF DOMAIN got = BlockFields
           THEN /\ read_result' = [level |-> reader.level, snapshot |-> got]
                /\ reader' = None
           ELSE /\ reader' = [reader EXCEPT !.got = got]
                /\ UNCHANGED read_result
    /\ UNCHANGED <<core_vars, status_vars, confirmed_block_info, finalized_block_info,
                   ctx_pc, new_slot, new_confirmed, upstream_failed, updater, updates>>

ContextInit ==
    /\ ControlInit
    /\ ContextIdle
    /\ ctx_pc = "confirmed_slot"
    /\ signature_status = <<>>
    /\ confirmed_block_info = None
    /\ finalized_block_info = None

ContextNext ==
    \/ \E result \in SlotResults : NewGetSlot(result)
    \/ \E result \in BlockhashResults : NewGetBlockhash(result)
    \/ \E level \in CommitmentLevels : UpdateBegin(level)
    \/ \E f \in BlockFields : UpdateWrite(f)
    \/ \E level \in CommitmentLevels : ReadBegin(level)
    \/ \E f \in BlockFields : ReadField(f)

ContextSpec == ContextInit /\ [][ContextNext]_vars

(***************************************************************************)
(* C11: every read of a BlockInformation returns hash, height and slot of  *)
(* one block: the one the initialisation stored or the one some update     *)
(* wrote, never the hash of one with the height or slot of another.        *)
(***************************************************************************)
C11_ReadsAreSnapshots ==
    read_result # None =>
        \E b \in 1..(MaxUpdates + 1) :
            read_result.snapshot =
                [block_hash |-> UpstreamBlock(b).blockhash,
                 block_height |-> UpstreamBlock(b).blockheight,
                 slot |-> UpstreamBlock(b).slot]

(***************************************************************************)
(* C15: once a query of the upstream node has failed while the context is  *)
(* built, the construction has panicked: no BlockInformation and no        *)
(* LiteRpcContext exists, and nothing is ever read from one.  A            *)
(* BlockInformation a reader can see is one of a context whose four        *)
(* queries all succeeded, with every field set.                            *)
(***************************************************************************)
C15_FailedInitIsFatal ==
    /\ upstream_failed =>
          /\ ctx_pc = "panicked"
          /\ confirmed_block_info = None
          /\ finalized_block_info = None
          /\ reader = None
          /\ read_result = None
    /\ (confirmed_block_info # None \/ finalized_block_info # None) =>
          /\ ctx_pc = "ready"
          /\ ~upstream_failed
          /\ \A info \in {confirmed_block_info, finalized_block_info} :
                /\ info # None
                /\ info.slot \in Nat /\ info.slot > 0
                /\ info.block_height \in Nat
                /\ info.block_hash # ""
    /\ (reader # None \/ read_result # None \/ updater # None) => ctx_pc = "ready"

\* the queries for Confirmed succeeded, one for Finalized failed
C15_Witness ==
    /\ upstream_failed
    /\ ctx_pc = "panicked"
    /\ new_confirmed # None

(***************************************************************************)
(* SignatureStatusTable.observe: under the write lock of the table, insert *)
(* the level if the signature is absent, else keep the stronger level.     *)
(***************************************************************************)
Rank(level) == IF level = "finalized" THEN 2 ELSE IF level = "confirmed" THEN 1 ELSE 0

StatusObserveOverwriting(table, sig, level) ==
    [s \in DOMAIN table \cup {sig} |-> IF s = sig THEN level ELSE table[s]]

StatusObserve(table, sig, level) ==
    [s \in DOMAIN table \cup {sig} |->
        IF s # sig THEN table[s]
        ELSE IF sig \in DOMAIN table /\ Rank(table[sig]) >= Rank(level) THEN table[sig]
        ELSE level]

StatusGet(table, sig) == IF sig \in DOMAIN table THEN table[sig] ELSE "None"

Observers == 1..NumObservers

ObserveCall(p, sig, level) ==
    /\ ctx_pc = "ready"
    /\ observers[p].at \in {"idle", "done"}
    /\ observers' = [observers EXCEPT ![p] = [at |-> "lock", sig |-> sig, level |-> level]]
    /\ UNCHANGED <<core_vars, block_vars, signature_status, status_lock>>

\* signature_status.write(): waits while another task holds the lock
ObserveLock(p) ==
    /\ observers[p].at = "lock"
    /\ status_lock = 0
    /\ status_lock' = p
    /\ observers' = [observers EXCEPT ![p].at = "held"]
    /\ UNCHANGED <<core_vars, block_vars, signature_status>>

\* the write, and the drop of the guard
ObserveWrite(p) ==
    /\ observers[p].at = "held"
    /\ signature_status' =
          StatusObserve(signature_status, observers[p].sig, observers[p].level)
    /\ status_lock' = 0
    /\ observers' = [observers EXCEPT ![p] =
          [at |-> "done", sig |-> observers[p].sig, level |-> observers[p].level,
           was |-> StatusGet(signature_status, observers[p].sig)]]
    /\ UNCHANGED <<core_vars, block_vars>>

StatusNext ==
    \/ \E p \in Observers, sig \in Signatures, level \in CommitmentLevels :
          ObserveCall(p, sig, level)
    \/ \E p \in Observers : ObserveLock(p)
    \/ \E p \in Observers : ObserveWrite(p)

StatusSpec == Init /\ [][StatusNext]_vars

(***************************************************************************)
(* C14: the level stored for a signature never weakens and no entry        *)
(* disappears; an observe inserts its level for an absent signature,       *)
(* raises confirmed to finalized, and leaves finalized as it is.           *)
(***************************************************************************)
C14_ObserveIsMonotonic ==
    [][ /\ \A s \in DOMAIN signature_status :
              /\ s \in DOMAIN signature_status'
              /\ Rank(signature_status'[s]) >= Rank(signature_status[s])
        /\ \A p \in Observers :
              (observers[p].at = "held" /\ observers'[p].at = "done") =>
                  LET sig == observers[p].sig
                      level == observers[p].level
                  IN  /\ sig \in DOMAIN signature_status'
                      /\ signature_status'[sig] =
                            (IF sig \notin DOMAIN signature_status THEN level
                             ELSE IF signature_status[sig] = "finalized"
                                  THEN "finalized"
                             ELSE level)
      ]_vars

\* observe(sig, confirmed) has returned on a signature that was finalized
C14_Witness ==
    \E p \in Observers :
        /\ observers[p].at = "done"
        /\ observers[p].level = "confirmed"
        /\ observers[p].was = "finalized"
        /\ signature_status[observers[p].sig] = "finalized"

(***************************************************************************)
(* C16: an observe never waits for the lock while an observe of another    *)
(* signature holds it.                                                     *)
(***************************************************************************)
C16_DistinctSignaturesDoNotBlock ==
    \A p, q \in Observers :
        ~ (/\ p # q
           /\ observers[p].at = "lock"
           /\ observers[q].at = "held"
           /\ status_lock = q
           /\ observers[p].sig # observers[q].sig)

====
